---- MODULE Spec2Model ----
(***************************************************************************)
(* Particle swarm optimisation (src/src/pso-python/                          *)
(* particle_swarm_optimisation.py): the Particle and SearchSpace classes    *)
(* and the iteration loop of the script.                                    *)
(*                                                                          *)
(* Numbers.  Positions and velocities are exact dyadic rationals, held as   *)
(* integers in units of 1/Scale; fitness values are held in units of        *)
(* 1/Scale^2.  The random draws are taken from values for which every       *)
(* product of the velocity update is a multiple of 1/Scale for as many      *)
(* updates as the model allows (ExactArithmetic checks it), so no rounding  *)
(* is introduced.  float('inf') is the value Inf, handled only through      *)
(* FloatLess / FloatLeq / FloatAbsDiff, never through integer arithmetic.   *)
(***************************************************************************)
EXTENDS Integers, Sequences, FiniteSets, TLC

VARIABLES
    pc,                    \* position of the script (or "api" for a library client)
    particles,             \* SearchSpace.particles: sequence of Particle records
    num_particles,         \* SearchSpace.num_particles
    target,                \* SearchSpace.target
    target_exit_boundary,  \* SearchSpace.target_exit_boundary
    global_best_position,  \* SearchSpace.global_best_position
    global_best_value,     \* SearchSpace.global_best_value
    MAX_ITERATIONS,        \* the script's MAX_ITERATIONS
    I,                     \* the script's I
    FITNESS_RECORD,        \* the script's FITNESS_RECORD
    reported,              \* what the script prints at its end
    initial_particles,     \* history: the particles as constructed
    observed,              \* history: fitness of every current position seen by a cycle
    moves                  \* history: number of iterate_particles / move calls so far

vars == <<pc, particles, num_particles, target, target_exit_boundary,
          global_best_position, global_best_value, MAX_ITERATIONS, I,
          FITNESS_RECORD, reported, initial_particles, observed, moves>>

-----------------------------------------------------------------------------
(* Bounds and input sets *)

\* largest MAX_ITERATIONS typed at the prompt
MaxIterations == 3
\* most iterate_particles calls a library client makes (at most MaxIterations,
\* so that Scale keeps the arithmetic exact)
MaxApiMoves == 2

Scale == 2 ^ MaxIterations
Scale2 == Scale * Scale

\* initial coordinates (whole numbers inside the +-50 range of the constructor)
InitPositions == { <<0, 0>>, <<2, 0>>, <<-2, 0>>, <<-4, 2>> }
InitGlobalPositions == { <<1, 1>>, <<-3, 0>> }
\* the inputs typed at the prompts
ParticleCountInputs == { -1, 0, 1, 2 }
ExitBoundaryInputs == { -1, 0, 1 }
MaxIterationInputs == -1 .. MaxIterations
\* outputs of random.random() in [0,1), as <<numerator, denominator>>
PersonalDraws == { <<0, 1>>, <<10, 13>> }
GlobalDraws == { <<0, 1>>, <<1, 2>> }

-----------------------------------------------------------------------------
(* Constants of the program *)

CURRENT_COMPENSATION == <<1, 2>>          \* 0.5
PERSONAL_BEST_COMPENSATION == <<13, 20>>  \* 0.65
GLOBAL_BEST_COMPENSATION == <<1, 1>>      \* 1.0
TARGET == 2

Inf == -1    \* float('inf'): a tag, no fitness is negative

FloatLess(a, b) == IF a = Inf THEN FALSE ELSE IF b = Inf THEN TRUE ELSE a < b
FloatLeq(a, b) == IF b = Inf THEN TRUE ELSE IF a = Inf THEN FALSE ELSE a <= b
Abs(n) == IF n < 0 THEN -n ELSE n
\* abs(a - b) for a finite a
FloatAbsDiff(a, b) == IF b = Inf THEN Inf ELSE Abs(a - b)

VecAdd(u, v) == << u[1] + v[1], u[2] + v[2] >>
VecSub(u, v) == << u[1] - v[1], u[2] - v[2] >>
\* (weight * draw) * vector, weight and draw rationals
VecScale(w, r, v) == << (w[1] * r[1] * v[1]) \div (w[2] * r[2]),
                        (w[1] * r[1] * v[2]) \div (w[2] * r[2]) >>
Exact(w, r, v) == /\ (w[1] * r[1] * v[1]) % (w[2] * r[2]) = 0
                  /\ (w[1] * r[1] * v[2]) % (w[2] * r[2]) = 0
One == <<1, 1>>

-----------------------------------------------------------------------------
(* get_particle_fitness and class Particle *)

get_particle_fitness(particle) ==
    (particle.position[1] * particle.position[1])
      + (particle.position[2] * particle.position[2]) + 2 * Scale2

\* Particle.__init__ with the random position pos (whole units).  best_position
\* is bound to the same array object as position: aliased records it.
Particle(pos) ==
    [ position |-> << pos[1] * Scale, pos[2] * Scale >>,
      best_position |-> << pos[1] * Scale, pos[2] * Scale >>,
      aliased |-> TRUE,
      best_position_value |-> Inf,
      velocity |-> <<0, 0>> ]

\* Particle.move: position += velocity, in place, so an aliased best_position
\* is the same array and shows the new value
move(particle) ==
    LET p == VecAdd(particle.position, particle.velocity)
    IN  [ particle EXCEPT !.position = p,
                          !.best_position = IF particle.aliased THEN p ELSE @ ]

-----------------------------------------------------------------------------
(* class SearchSpace *)

\* update_one_best without the comparison: the personal best is overwritten
\* on every call
update_one_best_always(particle) ==
    [ particle EXCEPT !.best_position = particle.position,
                      !.aliased = FALSE,
                      !.best_position_value = get_particle_fitness(particle) ]

\* update_one_best without np.copy: best_position bound to the position array
update_one_best_no_copy(particle) ==
    LET candidate == get_particle_fitness(particle)
    IN  IF FloatLess(candidate, particle.best_position_value)
        THEN [ particle EXCEPT !.best_position = particle.position,
                               !.aliased = TRUE,
                               !.best_position_value = candidate ]
        ELSE particle

\* the body of update_particle_best's loop for one particle
update_one_best(particle) ==
    LET candidate == get_particle_fitness(particle)
    IN  IF FloatLess(candidate, particle.best_position_value)
        THEN [ particle EXCEPT !.best_position = particle.position,
                               !.aliased = FALSE,
                               !.best_position_value = candidate ]
        ELSE particle

update_particle_best(ps) == [ i \in 1 .. Len(ps) |-> update_one_best(ps[i]) ]

\* update_global_step with the comparison reversed
update_global_step_reversed(g, particle) ==
    LET candidate == get_particle_fitness(particle)
    IN  IF FloatLess(g.value, candidate) \/ g.value = Inf
        THEN [ position |-> particle.position, value |-> candidate ]
        ELSE g

\* the body of update_global_best's loop for one particle, on the running
\* best g = [position, value]
update_global_step(g, particle) ==
    LET candidate == get_particle_fitness(particle)
    IN  IF FloatLess(candidate, g.value)
        THEN [ position |-> particle.position, value |-> candidate ]
        ELSE g

RECURSIVE update_global_from(_, _, _)
update_global_from(ps, k, g) ==
    IF k > Len(ps) THEN g
    ELSE update_global_from(ps, k + 1, update_global_step(g, ps[k]))

\* update_global_best that restarts from float('inf') on every call
update_global_best_per_call(ps, gpos, gval) ==
    update_global_from(ps, 1, [ position |-> gpos, value |-> Inf ])

update_global_best(ps, gpos, gval) ==
    update_global_from(ps, 1, [ position |-> gpos, value |-> gval ])

\* the body of iterate_particles' loop for one particle, draws r1 then r2
iterate_one(particle, gpos, r1, r2) ==
    LET personal_adjustment ==
            VecScale(PERSONAL_BEST_COMPENSATION, r1,
                     VecSub(particle.best_position, particle.position))
        global_adjustment ==
            VecScale(GLOBAL_BEST_COMPENSATION, r2,
                     VecSub(gpos, particle.position))
        updated_velocity ==
            VecAdd(VecAdd(VecScale(CURRENT_COMPENSATION, One, particle.velocity),
                          personal_adjustment),
                   global_adjustment)
    IN  move([ particle EXCEPT !.velocity = updated_velocity ])

iterate_particles(ps, gpos, draws) ==
    [ i \in 1 .. Len(ps) |-> iterate_one(ps[i], gpos, draws[i][1], draws[i][2]) ]

\* SearchSpace.__init__: the particles and the random global best position
NewParticles(n, positions) == [ i \in 1 .. (IF n > 0 THEN n ELSE 0) |-> Particle(positions[i]) ]

\* the termination condition with < in place of <=
Converged_strict == FloatLess(FloatAbsDiff(target, global_best_value), target_exit_boundary)

\* the termination condition of the loop
Converged == FloatLeq(FloatAbsDiff(target, global_best_value), target_exit_boundary)

CurrentFitness(ps) == { get_particle_fitness(ps[i]) : i \in 1 .. Len(ps) }
DrawSets(ps) == [ 1 .. Len(ps) -> PersonalDraws \X GlobalDraws ]
PositionChoices(n) == [ 1 .. (IF n > 0 THEN n ELSE 0) -> InitPositions ]

-----------------------------------------------------------------------------
(* The script *)

Init ==
    /\ pc = "start"
    /\ particles = << >>
    /\ num_particles = 0
    /\ target = 0
    /\ target_exit_boundary = 0
    /\ global_best_position = <<0, 0>>
    /\ global_best_value = Inf
    /\ MAX_ITERATIONS = 0
    /\ I = 0
    /\ FITNESS_RECORD = << >>
    /\ reported = [ iterations |-> -1, value |-> Inf ]
    /\ initial_particles = << >>
    /\ observed = {}
    /\ moves = 0

\* SearchSpace(target, boundary, n) with the constructor's random draws
Construct(t, boundary, n, nextpc) ==
    \E positions \in PositionChoices(n), gpos \in InitGlobalPositions :
        /\ num_particles' = n
        /\ particles' = NewParticles(n, positions)
        /\ initial_particles' = NewParticles(n, positions)
        /\ target' = t * Scale2
        /\ target_exit_boundary' = boundary * Scale2
        /\ global_best_position' = << gpos[1] * Scale, gpos[2] * Scale >>
        /\ global_best_value' = Inf
        /\ pc' = nextpc
        /\ UNCHANGED <<MAX_ITERATIONS, I, FITNESS_RECORD, reported, observed, moves>>

\* TARGET, the two prompts, SEARCH_SPACE = SearchSpace(...)
ReadConfiguration ==
    /\ pc = "start"
    /\ \E boundary \in ExitBoundaryInputs, n \in ParticleCountInputs :
           Construct(TARGET, boundary, n, "read_max")

\* MAX_ITERATIONS = int(input(...)); I = 0; FITNESS_RECORD = []
ReadMaxIterations ==
    /\ pc = "read_max"
    /\ \E m \in MaxIterationInputs : MAX_ITERATIONS' = m
    /\ I' = 0
    /\ FITNESS_RECORD' = << >>
    /\ pc' = "loop"
    /\ UNCHANGED <<particles, num_particles, target, target_exit_boundary,
                   global_best_position, global_best_value, reported,
                   initial_particles, observed, moves>>

\* the loop condition written with <=
LoopCondition_inclusive == I <= MAX_ITERATIONS

LoopCondition == I < MAX_ITERATIONS

\* while I < MAX_ITERATIONS
LoopTest ==
    /\ pc = "loop"
    /\ pc' = IF LoopCondition THEN "update_particle_best" ELSE "report"
    /\ UNCHANGED <<particles, num_particles, target, target_exit_boundary,
                   global_best_position, global_best_value, MAX_ITERATIONS, I,
                   FITNESS_RECORD, reported, initial_particles, observed, moves>>

DoUpdateParticleBest(nextpc) ==
    /\ particles' = update_particle_best(particles)
    /\ pc' = nextpc
    /\ UNCHANGED <<num_particles, target, target_exit_boundary,
                   global_best_position, global_best_value, MAX_ITERATIONS, I,
                   FITNESS_RECORD, reported, initial_particles, observed, moves>>

DoUpdateGlobalBest(nextpc) ==
    LET g == update_global_best(particles, global_best_position, global_best_value)
    IN  /\ global_best_position' = g.position
        /\ global_best_value' = g.value
        /\ observed' = observed \cup CurrentFitness(particles)
        /\ pc' = nextpc
        /\ UNCHANGED <<particles, num_particles, target, target_exit_boundary,
                       MAX_ITERATIONS, I, FITNESS_RECORD, reported,
                       initial_particles, moves>>

DoIterateParticles(nextpc) ==
    /\ \E draws \in DrawSets(particles) :
           particles' = iterate_particles(particles, global_best_position, draws)
    /\ moves' = moves + 1
    /\ pc' = nextpc
    /\ UNCHANGED <<num_particles, target, target_exit_boundary,
                   global_best_position, global_best_value, MAX_ITERATIONS, I,
                   FITNESS_RECORD, reported, initial_particles, observed>>

\* SEARCH_SPACE.update_particle_best()
StepUpdateParticleBest ==
    /\ pc = "update_particle_best"
    /\ DoUpdateParticleBest("update_global_best")

\* SEARCH_SPACE.update_global_best()
StepUpdateGlobalBest ==
    /\ pc = "update_global_best"
    /\ DoUpdateGlobalBest("converged")

\* if abs(target - global_best_value) <= target_exit_boundary: break
ConvergenceTest ==
    /\ pc = "converged"
    /\ pc' = IF Converged THEN "report" ELSE "iterate_particles"
    /\ UNCHANGED <<particles, num_particles, target, target_exit_boundary,
                   global_best_position, global_best_value, MAX_ITERATIONS, I,
                   FITNESS_RECORD, reported, initial_particles, observed, moves>>

\* SEARCH_SPACE.iterate_particles()
StepIterateParticles ==
    /\ pc = "iterate_particles"
    /\ DoIterateParticles("record")

\* FITNESS_RECORD.append(SEARCH_SPACE.global_best_value)
RecordFitness ==
    /\ pc = "record"
    /\ FITNESS_RECORD' = Append(FITNESS_RECORD, global_best_value)
    /\ pc' = "increment"
    /\ UNCHANGED <<particles, num_particles, target, target_exit_boundary,
                   global_best_position, global_best_value, MAX_ITERATIONS, I,
                   reported, initial_particles, observed, moves>>

\* I += 1 (the plotting before it reads the state and changes nothing)
Increment ==
    /\ pc = "increment"
    /\ I' = I + 1
    /\ pc' = "loop"
    /\ UNCHANGED <<particles, num_particles, target, target_exit_boundary,
                   global_best_position, global_best_value, MAX_ITERATIONS,
                   FITNESS_RECORD, reported, initial_particles, observed, moves>>

\* print("Iterations:", I); print("Best Solution:", ..., "with value", ...)
Report ==
    /\ pc = "report"
    /\ reported' = [ iterations |-> I, value |-> global_best_value ]
    /\ pc' = "done"
    /\ UNCHANGED <<particles, num_particles, target, target_exit_boundary,
                   global_best_position, global_best_value, MAX_ITERATIONS, I,
                   FITNESS_RECORD, initial_particles, observed, moves>>

Next ==
    \/ ReadConfiguration
    \/ ReadMaxIterations
    \/ LoopTest
    \/ StepUpdateParticleBest
    \/ StepUpdateGlobalBest
    \/ ConvergenceTest
    \/ StepIterateParticles
    \/ RecordFitness
    \/ Increment
    \/ Report

Spec == Init /\ [][Next]_vars

\* the script is one sequential thread: it always takes its next step
FairSpec == Spec /\ WF_vars(Next)

-----------------------------------------------------------------------------
(* A client of the module that imports it and calls the public operations  *)
(* of one SearchSpace in any order                                          *)

ApiConstruct ==
    /\ pc = "start"
    /\ \E boundary \in ExitBoundaryInputs, n \in ParticleCountInputs :
           Construct(TARGET, boundary, n, "api")

ApiUpdateParticleBest ==
    /\ pc = "api"
    /\ DoUpdateParticleBest("api")

ApiUpdateGlobalBest ==
    /\ pc = "api"
    /\ DoUpdateGlobalBest("api")

ApiIterateParticles ==
    /\ pc = "api"
    /\ moves < MaxApiMoves
    /\ DoIterateParticles("api")

NextApi ==
    \/ ApiConstruct
    \/ ApiUpdateParticleBest
    \/ ApiUpdateGlobalBest
    \/ ApiIterateParticles

SpecApi == Init /\ [][NextApi]_vars

-----------------------------------------------------------------------------
(* Sanity of the number representation: every division of the velocity     *)
(* update is exact, and Inf is no fitness                                   *)

ExactParticle(p, gpos) ==
    /\ Exact(CURRENT_COMPENSATION, One, p.velocity)
    /\ \A r1 \in PersonalDraws :
           Exact(PERSONAL_BEST_COMPENSATION, r1, VecSub(p.best_position, p.position))
    /\ \A r2 \in GlobalDraws :
           Exact(GLOBAL_BEST_COMPENSATION, r2, VecSub(gpos, p.position))

ExactArithmetic ==
    (moves < MaxIterations) =>
        \A i \in 1 .. Len(particles) : ExactParticle(particles[i], global_best_position)

-----------------------------------------------------------------------------
(* Properties *)

InCycle == pc \in { "update_particle_best", "update_global_best", "converged",
                    "iterate_particles", "record", "increment" }
Constructed == pc # "start"
N == Len(particles)
FitnessAt(pos) == pos[1] * pos[1] + pos[2] * pos[2] + 2 * Scale2
\* the least element of a non-empty set of finite fitness values
MinOf(S) == CHOOSE m \in S : \A x \in S : m <= x

\* C1: global_best_value is float('inf') on construction and, whatever
\* sequence of update_particle_best, update_global_best and iterate_particles
\* calls follows, no step makes it greater than it was.
C1_GlobalBestNonIncreasing ==
    [][ /\ (pc = "start" => global_best_value' = Inf)
        /\ (pc # "start" => FloatLeq(global_best_value', global_best_value)) ]_vars

\* a value the swarm saw when every particle was no better than at construction
\* has since been beaten: the global best went down from a finite value
C1_Witness ==
    /\ pc = "api"
    /\ N >= 1
    /\ global_best_value # Inf
    /\ \E f \in observed :
          /\ global_best_value < f
          /\ \A i \in 1 .. N : f <= FitnessAt(initial_particles[i].position)

\* C2: a particle's best_position_value never goes up, changes only in
\* update_particle_best, and there: when the fitness of the current position
\* is strictly smaller it becomes that fitness and best_position becomes a
\* copy of the position (separate storage); otherwise both stay as they were.
C2_Step(p, q) ==
    LET f == FitnessAt(p.position)
    IN  /\ FloatLeq(q.best_position_value, p.best_position_value)
        /\ (q.best_position_value # p.best_position_value
               => pc = "update_particle_best")
        /\ (pc = "update_particle_best" =>
               IF p.best_position_value = Inf \/ f < p.best_position_value
               THEN /\ q.best_position_value = f
                    /\ q.best_position = p.position
                    /\ ~q.aliased
               ELSE /\ q.best_position_value = p.best_position_value
                    /\ q.best_position = p.best_position
                    /\ q.aliased = p.aliased)

C2_PersonalBest ==
    [][ Constructed =>
          /\ Len(particles') = N
          /\ \A i \in 1 .. N : C2_Step(particles[i], particles'[i]) ]_vars

\* right after update_particle_best in a later cycle: one particle kept an
\* older, better personal best and another has just improved on its own
C2_Witness ==
    /\ pc = "update_global_best"
    /\ I >= 1
    /\ \E i \in 1 .. N :
          /\ particles[i].best_position_value < FitnessAt(particles[i].position)
          /\ particles[i].best_position # particles[i].position
    /\ \E j \in 1 .. N :
          /\ particles[j].best_position_value = FitnessAt(particles[j].position)
          /\ particles[j].best_position_value
                 < FitnessAt(initial_particles[j].position)

\* C3: when update_global_best has finished in a cycle of the run,
\* global_best_value is the least fitness any particle's current position had
\* in this or an earlier cycle, and float('inf') only if none was evaluated.
C3_GlobalBestIsMinObserved ==
    pc = "converged" =>
        IF observed = {} THEN global_best_value = Inf
        ELSE global_best_value = MinOf(observed)

\* a later cycle in which every particle is now worse than the global best,
\* which was set in an earlier cycle
C3_Witness ==
    /\ pc = "converged"
    /\ I >= 1
    /\ N >= 2
    /\ global_best_value # Inf
    /\ \A i \in 1 .. N : global_best_value < FitnessAt(particles[i].position)

\* C4: a new Particle's best_position equals its position and is separate
\* storage: as long as update_particle_best has not run for it (its
\* best_position_value is still float('inf')), best_position keeps the value
\* it had on construction, whatever has moved the particle since.
C4_BestPositionSeparate ==
    pc = "api" =>
        \A i \in 1 .. N :
            /\ initial_particles[i].best_position = initial_particles[i].position
            /\ (particles[i].best_position_value = Inf
                   => particles[i].best_position = initial_particles[i].best_position)

\* a configuration outside the documented ranges, once it has been read
InvalidConfiguration ==
    \/ pc # "start" /\ (num_particles < 1 \/ target_exit_boundary < 0)
    \/ pc \notin { "start", "read_max" } /\ MAX_ITERATIONS <= 0

\* C5: a configuration with a particle count below 1, a negative exit
\* boundary or a maximum of iterations not above 0 is refused when it is
\* read: no particle exists and no cycle is ever entered.
C5_InvalidConfigurationRejected ==
    InvalidConfiguration => N = 0 /\ ~InCycle /\ observed = {} /\ moves = 0

\* C6: with MAX_ITERATIONS = 0 the loop body never runs: the script goes
\* from the loop test to its report with global_best_value = float('inf'),
\* every particle exactly as constructed and an empty FITNESS_RECORD.
C6_ZeroIterations ==
    (MAX_ITERATIONS = 0 /\ pc \notin { "start", "read_max" }) =>
        /\ pc \in { "loop", "report", "done" }
        /\ global_best_value = Inf
        /\ particles = initial_particles
        /\ FITNESS_RECORD = << >>
        /\ observed = {}
        /\ moves = 0
        /\ (pc = "done" => reported.value = Inf)

C6_Witness ==
    pc = "done" /\ MAX_ITERATIONS = 0 /\ N = 2

\* C7: Scenario A (one particle constructed at (0,0), target 2, exit boundary
\* 0) with a positive MAX_ITERATIONS.
ScenarioA ==
    /\ pc \notin { "start", "read_max" }
    /\ num_particles = 1
    /\ initial_particles[1].position = <<0, 0>>
    /\ target = 2 * Scale2
    /\ target_exit_boundary = 0
    /\ MAX_ITERATIONS >= 1

\* the part of Scenario A about the first cycle: its fitness is exactly 2, the
\* convergence test holds, and nothing has been moved or recorded
ScenarioA_FirstCycle ==
    /\ pc \in { "loop", "update_particle_best", "update_global_best",
                "converged", "report", "done" }
    /\ particles[1].position = <<0, 0>>
    /\ particles[1].velocity = <<0, 0>>
    /\ moves = 0
    /\ FITNESS_RECORD = << >>
    /\ (pc \in { "update_global_best", "converged", "report", "done" }
           => particles[1].best_position_value = 2 * Scale2)
    /\ (pc \in { "converged", "report", "done" }
           => /\ global_best_value = 2 * Scale2
              /\ Abs(target - global_best_value) <= target_exit_boundary)

\* C7 as stated: ... and the run reports 1 executed cycle with
\* global_best_value = 2.
C7_ScenarioA_Original ==
    ScenarioA =>
        /\ ScenarioA_FirstCycle
        /\ (pc = "done" => reported = [ iterations |-> 1, value |-> 2 * Scale2 ])

\* C7 as amended: ... and the run ends inside its first cycle, reporting
\* Iterations: 0 (I counts only the cycles that ran to their end) with
\* global_best_value = 2.
C7_ScenarioA ==
    ScenarioA =>
        /\ ScenarioA_FirstCycle
        /\ I = 0
        /\ (pc = "done" => reported = [ iterations |-> 0, value |-> 2 * Scale2 ])

C7_Witness ==
    ScenarioA /\ pc = "done" /\ MAX_ITERATIONS = 2

\* the steps of the script, in the order of the loop body
ClaimConverged ==
    global_best_value # Inf
      /\ Abs(target - global_best_value) <= target_exit_boundary

CycleOrder ==
    /\ (pc = "start" => pc' = "read_max")
    /\ (pc = "read_max" => pc' = "loop")
    /\ (pc = "loop" =>
           pc' = IF I < MAX_ITERATIONS THEN "update_particle_best" ELSE "report")
    /\ (pc = "update_particle_best" => pc' = "update_global_best")
    /\ (pc = "update_global_best" => pc' = "converged")
    /\ (pc = "converged" =>
           /\ pc' = IF ClaimConverged THEN "report" ELSE "iterate_particles"
           /\ particles' = particles
           /\ FITNESS_RECORD' = FITNESS_RECORD)
    /\ (pc = "iterate_particles" => pc' = "record" /\ moves' = moves + 1)
    /\ (pc = "record" =>
           /\ pc' = "increment"
           /\ FITNESS_RECORD' = Append(FITNESS_RECORD, global_best_value))
    /\ (pc = "increment" => pc' = "loop" /\ I' = I + 1)
    /\ (pc = "report" => pc' = "done" /\ particles' = particles)
    /\ pc # "done"
    /\ (pc # "iterate_particles" => moves' = moves)
    /\ (pc # "record" => FITNESS_RECORD' = FITNESS_RECORD)

\* moves and the length of FITNESS_RECORD count the cycles that ran to their
\* end, so the cycle that stops the run adds to neither
CycleCounts ==
    /\ (InCycle => I < MAX_ITERATIONS)
    /\ (pc \notin { "start", "read_max" } =>
           /\ I >= 0
           /\ moves = (IF pc \in { "record", "increment" } THEN I + 1 ELSE I)
           /\ Len(FITNESS_RECORD) = (IF pc = "increment" THEN I + 1 ELSE I))
    /\ (pc = "done" => reported.iterations = I)

\* C9: every run ends, after at most MAX_ITERATIONS cycles; a cycle is the
\* loop test, update_particle_best, update_global_best, the convergence test,
\* iterate_particles, the append to FITNESS_RECORD and I += 1, in this order;
\* the run leaves the loop at the first cycle whose convergence test holds,
\* and that cycle moves no particle and appends nothing.
C9_CycleOrderAndTermination ==
    /\ [][CycleOrder]_vars
    /\ []CycleCounts
    /\ <>(pc = "done")

\* a run that completed a cycle and then stopped on the convergence test with
\* budget left
C9_Witness ==
    /\ pc = "done"
    /\ I >= 1
    /\ I < MAX_ITERATIONS
    /\ Len(FITNESS_RECORD) = I
    /\ moves = I

\* one axis of the velocity update, written out with the module's weights
Axis(p, gpos, r1, r2, k) ==
    (p.velocity[k] \div 2)
      + ((13 * r1[1] * (p.best_position[k] - p.position[k])) \div (20 * r1[2]))
      + ((r2[1] * (gpos[k] - p.position[k])) \div r2[2])

C10_Step(p, q, gpos) ==
    /\ \E r1 \in PersonalDraws, r2 \in GlobalDraws :
          /\ q.velocity = << Axis(p, gpos, r1, r2, 1), Axis(p, gpos, r1, r2, 2) >>
          /\ q.position = << p.position[1] + q.velocity[1],
                             p.position[2] + q.velocity[2] >>
    /\ q.best_position = p.best_position
    /\ q.best_position_value = p.best_position_value

\* C10: iterate_particles draws r1 and r2 for each particle, sets
\* velocity' = 0.5*velocity + (0.65*r1)*(best_position - position)
\*             + (1.0*r2)*(global_best_position - position)
\* from the values before the call, then position' = position + velocity',
\* and leaves best_position, best_position_value, global_best_position and
\* global_best_value as they were.
C10_IterateParticles ==
    [][ (Constructed /\ moves' = moves + 1) =>
          /\ Len(particles') = N
          /\ \A i \in 1 .. N :
                C10_Step(particles[i], particles'[i], global_best_position)
          /\ global_best_position' = global_best_position
          /\ global_best_value' = global_best_value ]_vars

\* the personal bests of the swarm, and whether m is the least of them
PersonalBests == { particles[i].best_position_value : i \in 1 .. N }
LeastPersonalBest(m) ==
    /\ m \in PersonalBests
    /\ \A b \in PersonalBests : b # Inf /\ m <= b

\* C11: in the script's run with at least one particle, once
\* update_particle_best and update_global_best have both run in a cycle,
\* global_best_value is the least of the particles' best_position_value
\* (update_global_best never reads them); and whenever global_best_value is
\* finite, the fitness of global_best_position is global_best_value.
C11_GlobalBestIsLeastPersonalBest ==
    /\ (pc = "converged" /\ N >= 1) =>
           /\ global_best_value # Inf
           /\ LeastPersonalBest(global_best_value)
    /\ (global_best_value # Inf) =>
           FitnessAt(global_best_position) = global_best_value

\* a later cycle, after both updates: every particle now sits at a position
\* worse than the global best, and the particles' personal bests differ
C11_Witness ==
    /\ pc = "converged"
    /\ I >= 1
    /\ N >= 2
    /\ global_best_value # Inf
    /\ \A i \in 1 .. N : global_best_value < FitnessAt(particles[i].position)
    /\ particles[1].best_position_value # particles[2].best_position_value

====
